---- MODULE Spec2Model ----
(***************************************************************************)
(* ShmemChannel (libraries/core/src/shared_memory/channel.rs): a channel   *)
(* between one server and one client over a shared memory region.  The     *)
(* region holds two auto-reset events, a disconnect flag, a 64-bit message *)
(* length and one payload area used by both directions.                    *)
(*                                                                         *)
(* Every atomic access of the code (event set / wait, flag load / store,   *)
(* length load / store) is one step of the model; the plain payload copy   *)
(* of send_raw is one step per byte, so the steps of the two processes     *)
(* interleave as they do on the shared region.                             *)
(*                                                                         *)
(* Four specifications share the module: Spec (with SpecLive, its fair     *)
(* version) is the channel; SpecLayout is offsets() over the event sizes;  *)
(* SpecOneWay is the channel with one end only sending and the other only  *)
(* receiving, with counters; SpecServer is the subscription loop of        *)
(* src/server.rs.  Each specification holds the variables of the others    *)
(* fixed.                                                                  *)
(***************************************************************************)
EXTENDS Naturals, Integers, Sequences, FiniteSets, TLC

(* ----------------------------- bounds ---------------------------------- *)

\* capacity of the region in bytes (memory.len())
MemLen == 16
\* nesting depth of the message type Option<Option<...<()>>>
MaxDepth == 4
\* largest byte value a region may hold before new_server runs
MaxGarbage == 2
\* largest size the backend reports for one event
MaxEventLen == 8
\* number of sends in a run where one end only sends
MaxSends == 2
\* server.rs: length of the subscriptions list, largest payload value, and
\* the number of values the hash of the states map can take
MaxSubs == 2
MaxValue == 2
HashMod == 5

(* ------------------------- layout (offsets) ---------------------------- *)

\* sizes reported by Event::new / Event::from_existing for the two events
ServerEventLen == 2
ClientEventLen == 2
\* mem::size_of::<AtomicBool>() and mem::size_of::<AtomicU64>()
SizeOfAtomicBool == 1
SizeOfAtomicU64 == 8

offsets(server_event_len, client_event_len) ==
    LET disconnect_offset == server_event_len + client_event_len
        len_offset == disconnect_offset + SizeOfAtomicBool
        data_offset == len_offset + SizeOfAtomicU64
    IN  <<disconnect_offset, len_offset, data_offset>>

data_offset == offsets(ServerEventLen, ClientEventLen)[3]

\* memory.len() - data_offset: the bytes available to a payload
PayloadCap == MemLen - data_offset

(* --------------------------- the serializer ---------------------------- *)
(* bincode (fixed-int encoding, trailing bytes allowed), for two message   *)
(* types: the unit type, encoded in 0 bytes, and Option nested MaxDepth    *)
(* times around unit, where Some^k(None) is k bytes 1 followed by a byte 0 *)
(* and Some^MaxDepth(()) is MaxDepth bytes 1.                              *)

Types == {"unit", "opt"}
Values == {<<"unit", 0>>} \cup {<<"opt", k>> : k \in 0..MaxDepth}
TypeOf(v) == v[1]

Ones(k) == [i \in 1..k |-> 1]

serialize(v) ==
    IF v[1] = "unit" THEN <<>>
    ELSE IF v[2] < MaxDepth THEN Ones(v[2]) \o <<0>>
    ELSE Ones(MaxDepth)

RECURSIVE DecodeOpt(_, _)
DecodeOpt(bytes, depth) ==
    IF depth = MaxDepth THEN <<"Some", <<"opt", depth>>>>
    ELSE IF depth + 1 > Len(bytes) THEN <<"ErrDecode">>
    ELSE IF bytes[depth + 1] = 0 THEN <<"Some", <<"opt", depth>>>>
    ELSE IF bytes[depth + 1] = 1 THEN DecodeOpt(bytes, depth + 1)
    ELSE <<"ErrDecode">>

deserialize(T, bytes) ==
    IF T = "unit" THEN <<"Some", <<"unit", 0>>>>
    ELSE DecodeOpt(bytes, 0)

(* ------------------------------ state ---------------------------------- *)

Ends == {"server", "client"}
Peer(e) == IF e = "server" THEN "client" ELSE "server"

VARIABLES
    server_event,   \* state of the server's event in the region
    client_event,   \* state of the client's event in the region
    disconnect,     \* the AtomicBool at disconnect_offset
    data_len,       \* the AtomicU64 at len_offset
    data,           \* the payload bytes at data_offset
    pc,             \* where each endpoint is in its current operation
    msg,            \* send_raw: the encoded message being sent
    ncopied,        \* send_raw: bytes of msg copied so far
    rtype,          \* receive: the type T the caller decodes as
    timeout,        \* receive: "Infinite" or "Val"
    msg_len,        \* receive: the length loaded from data_len
    result,         \* what the endpoint's last operation returned
    touched,        \* history: a send or a drop has been invoked
    drop_ctx,       \* history: the server's receive relative to the client's drop
    mon,            \* history: the exchange in progress (see the monitor below)
    dirty           \* history: the peer wrote the slot during e's running send

\* the region layout as one endpoint computes it (new_server, new_client)
VARIABLES
    event_lens,     \* <<server_event_len, client_event_len>> from the backend
    layout,         \* what offsets() returned, <<>> before it is called
    len_access      \* outcome of forming the &AtomicU64 in data_len()

\* history of a run in which one end only sends and the other only receives
VARIABLES
    sender,         \* the end that sends
    nsent,          \* sends that have returned Ok(())
    nsome,          \* receives that have returned Ok(Some(_))
    slot_of,        \* which send (1, 2, ..) stored the length now in the slot
    taken,          \* which send's length the running receive has loaded
    last_taken,     \* which send's length the last Ok(Some(_)) was read under
    dup             \* two receives have returned Ok(Some(_)) for one send

\* the subscription loop of server.rs
VARIABLES
    subs,           \* variables.subscriptions, in the order of the Vec
    subscribers,    \* the keys of the HashMap in the order iter_mut() yields
    states,         \* the BTreeMap of latest values, Absent where no entry
    states_hash,    \* the hash recorded before the loop or after a call
    loop_pc,        \* "poll" (line 58) or "hash" (line 77)
    results,        \* history: what each subscriber yielded in this iteration
    called          \* history: the last iteration called the Python function

shared == <<server_event, client_event, disconnect, data_len, data>>
hist == <<touched, drop_ctx, mon>>
\* the variables no step of the channel changes
counts == <<nsent, nsome, slot_of, taken, last_taken, dup>>
srv == <<subs, subscribers, states, states_hash, loop_pc, results, called>>
aux == <<event_lens, layout, len_access, sender, counts, srv>>
vars == <<server_event, client_event, disconnect, data_len, data,
          pc, msg, ncopied, rtype, timeout, msg_len, result,
          touched, drop_ctx, mon, dirty, event_lens, layout, len_access,
          sender, nsent, nsome, slot_of, taken, last_taken, dup,
          subs, subscribers, states, states_hash, loop_pc, results, called>>

EventStates == {"Clear", "Signaled"}
NoResult == <<"NoResult">>

\* the event receive waits on
OwnEvent(e) == IF e = "server" THEN server_event ELSE client_event

\* event.set(state) on the server's or the client's event
SetEvent(e, s) ==
    IF e = "server"
    THEN server_event' = s /\ UNCHANGED client_event
    ELSE client_event' = s /\ UNCHANGED server_event

(* ------------------------- history variables --------------------------- *)
(* mon follows one exchange at a time: a send of value v to endpoint `to`  *)
(* ("sending", then "sent" once send has returned), the receive of `to`    *)
(* that takes it ("recv"), and back to "idle" when that receive returns.   *)
(*   early: the receiver was already waiting when the send returned        *)
(*   ow:    the sender sent again while the receiver had not started       *)
(*   pre:   the client attached after the send had returned                *)
(*   noisy: the sender invoked a further send or drop during the receive   *)
(* Any other send or drop during an exchange makes the monitor "broken",   *)
(* which it stays: the behaviour is no longer one of alternating           *)
(* operations.  The history variables are read by no action's guard.       *)

MonIdle == [st |-> "idle", to |-> "server", v |-> <<"unit", 0>>,
            early |-> FALSE, ow |-> FALSE, pre |-> FALSE, noisy |-> FALSE]
MonBroken == [MonIdle EXCEPT !.st = "broken"]

Fits(v) == Len(serialize(v)) <= PayloadCap

OnAttach ==
    IF mon.st = "sent" /\ mon.to = "client" THEN [mon EXCEPT !.pre = TRUE] ELSE mon

OnSend(e, v) ==
    IF mon.st = "idle"
    THEN IF Fits(v)
         THEN [MonIdle EXCEPT !.st = "sending", !.to = Peer(e), !.v = v]
         ELSE mon
    ELSE IF mon.st = "sent" /\ mon.to = Peer(e) /\ Fits(v)
    THEN [mon EXCEPT !.st = "sending", !.v = v, !.ow = TRUE]
    ELSE IF mon.st = "recv" THEN [mon EXCEPT !.noisy = TRUE]
    ELSE MonBroken

OnSignal(e) ==
    IF mon.st = "sending" /\ mon.to = Peer(e)
    THEN IF pc[Peer(e)] = "wait"
         THEN [mon EXCEPT !.st = "recv", !.early = TRUE]
         ELSE [mon EXCEPT !.st = "sent"]
    ELSE mon

OnReceive(e) ==
    IF mon.st = "sent" /\ mon.to = e THEN [mon EXCEPT !.st = "recv"]
    ELSE IF mon.st = "sending" /\ mon.to = e /\ mon.ow THEN MonBroken
    ELSE mon

OnFinish(e) ==
    IF mon.st = "recv" /\ mon.to = e
    THEN IF mon.noisy THEN MonBroken ELSE MonIdle
    ELSE mon

OnDrop(e) ==
    IF mon.st \in {"sending", "sent"} THEN MonBroken
    ELSE IF mon.st = "recv" THEN [mon EXCEPT !.noisy = TRUE]
    ELSE mon

\* dirty[e] while e runs a send: the peer has written the payload or the
\* length since that send was invoked.  It is updated beside the steps.
SendBounds(e) == dirty' = [dirty EXCEPT ![e] = FALSE]
SlotWrite(e) ==
    dirty' = [dirty EXCEPT
                ![Peer(e)] = @ \/ pc[Peer(e)] \in {"copy", "signal"}]

\* how the receive the server now invokes relates to the client's drop
DropCtxAtReceive ==
    IF pc["client"] # "closed" THEN "none"
    ELSE IF server_event = "Signaled" THEN "after_signaled"
    ELSE "after_clear"

\* the layout of the channel whose steps are modelled
ChannelLayout ==
    /\ event_lens = <<ServerEventLen, ClientEventLen>>
    /\ layout = offsets(ServerEventLen, ClientEventLen)
    /\ len_access = "ok"

ChannelInit ==
    /\ server_event \in EventStates
    /\ client_event \in EventStates
    /\ disconnect \in BOOLEAN
    /\ data_len \in 0..(PayloadCap + 1)
    /\ \E b \in 0..MaxGarbage : data = [i \in 1..PayloadCap |-> b]
    /\ pc = [e \in Ends |-> "none"]
    /\ msg = [e \in Ends |-> <<>>]
    /\ ncopied = [e \in Ends |-> 0]
    /\ rtype = [e \in Ends |-> "unit"]
    /\ timeout = [e \in Ends |-> "Infinite"]
    /\ msg_len = [e \in Ends |-> 0]
    /\ result = [e \in Ends |-> NoResult]
    /\ touched = FALSE
    /\ drop_ctx = "none"
    /\ mon = MonIdle
    /\ dirty = [e \in Ends |-> FALSE]

(* ------------------------ server.rs: the data -------------------------- *)

\* the key expressions that can be subscribed to, and a key of the outputs
Keys == {"a", "b"}
AllKeys == Keys \cup {"out"}
\* a key without entry in states; a subscriber that yielded no sample
Absent == 0

\* hash(): DefaultHasher over the entries of the map, a function of the
\* content that is not injective
hash(st) == (st["a"] + 3 * st["b"] + 9 * st["out"]) % HashMod

\* before main has read its configuration
NoServer ==
    /\ subs = <<>>
    /\ subscribers = <<>>
    /\ states = [k \in AllKeys |-> Absent]
    /\ states_hash = hash([k \in AllKeys |-> Absent])
    /\ loop_pc = "poll"
    /\ results = [k \in Keys |-> Absent]
    /\ called = FALSE

\* nothing has been sent or received
NoTraffic ==
    /\ nsent = 0
    /\ nsome = 0
    /\ slot_of = 0
    /\ taken = 0
    /\ last_taken = 0
    /\ dup = FALSE

Init ==
    /\ ChannelInit
    /\ ChannelLayout
    /\ sender = "client"
    /\ NoTraffic
    /\ NoServer

(* --------------------------- construction ------------------------------ *)

\* new_server that forgets to set the client's event Clear
new_server_keeps_client_event ==
    /\ pc["server"] = "none"
    /\ server_event' = "Clear"
    /\ disconnect' = FALSE
    /\ data_len' = 0
    /\ pc' = [pc EXCEPT !["server"] = "ready"]
    /\ UNCHANGED <<client_event, data, msg, ncopied, rtype, timeout, msg_len,
                   result, hist>>

\* new_server: Event::new twice, both events set Clear, flag and length written
new_server ==
    /\ pc["server"] = "none"
    /\ server_event' = "Clear"
    /\ client_event' = "Clear"
    /\ disconnect' = FALSE
    /\ data_len' = 0
    /\ pc' = [pc EXCEPT !["server"] = "ready"]
    /\ UNCHANGED <<data, msg, ncopied, rtype, timeout, msg_len, result, hist>>

\* new_client: Event::from_existing twice; nothing in the region is written
new_client ==
    /\ pc["client"] = "none"
    /\ pc["server"] \notin {"none", "closed"}
    /\ pc' = [pc EXCEPT !["client"] = "ready"]
    /\ mon' = OnAttach
    /\ UNCHANGED <<shared, msg, ncopied, rtype, timeout, msg_len, result,
                   touched, drop_ctx>>

(* -------------------------------- send --------------------------------- *)

\* send whose capacity assertion is off by one
send_accepts_one_more(e, v) ==
    /\ pc[e] = "ready"
    /\ IF Len(serialize(v)) <= PayloadCap + 1
       THEN /\ pc' = [pc EXCEPT ![e] = "copy"]
            /\ msg' = [msg EXCEPT ![e] = serialize(v)]
            /\ result' = [result EXCEPT ![e] = NoResult]
       ELSE /\ pc' = [pc EXCEPT ![e] = "panicked"]
            /\ result' = [result EXCEPT ![e] = <<"PanicOversize">>]
            /\ UNCHANGED msg
    /\ ncopied' = [ncopied EXCEPT ![e] = 0]
    /\ touched' = TRUE
    /\ drop_ctx' = IF e = "server" THEN "none" ELSE drop_ctx
    /\ mon' = OnSend(e, v)
    /\ UNCHANGED <<shared, rtype, timeout, msg_len>>

\* send: serialize, then the capacity assertion of send_raw
send(e, v) ==
    /\ pc[e] = "ready"
    /\ IF Len(serialize(v)) <= PayloadCap
       THEN /\ pc' = [pc EXCEPT ![e] = "copy"]
            /\ msg' = [msg EXCEPT ![e] = serialize(v)]
            /\ result' = [result EXCEPT ![e] = NoResult]
       ELSE /\ pc' = [pc EXCEPT ![e] = "panicked"]
            /\ result' = [result EXCEPT ![e] = <<"PanicOversize">>]
            /\ UNCHANGED msg
    /\ ncopied' = [ncopied EXCEPT ![e] = 0]
    /\ touched' = TRUE
    /\ drop_ctx' = IF e = "server" THEN "none" ELSE drop_ctx
    /\ mon' = OnSend(e, v)
    /\ UNCHANGED <<shared, rtype, timeout, msg_len>>

\* a copy that advances the destination but not the source
send_copy_repeats_first_byte(e) ==
    /\ pc[e] = "copy"
    /\ ncopied[e] < Len(msg[e])
    /\ data' = [data EXCEPT ![ncopied[e] + 1] = msg[e][1]]
    /\ ncopied' = [ncopied EXCEPT ![e] = ncopied[e] + 1]
    /\ UNCHANGED <<server_event, client_event, disconnect, data_len,
                   pc, msg, rtype, timeout, msg_len, result, hist>>

\* copy_from_nonoverlapping, one byte at a time
send_copy(e) ==
    /\ pc[e] = "copy"
    /\ ncopied[e] < Len(msg[e])
    /\ data' = [data EXCEPT ![ncopied[e] + 1] = msg[e][ncopied[e] + 1]]
    /\ ncopied' = [ncopied EXCEPT ![e] = ncopied[e] + 1]
    /\ UNCHANGED <<server_event, client_event, disconnect, data_len,
                   pc, msg, rtype, timeout, msg_len, result, hist>>

\* the length store moved before the end of the payload copy
send_store_len_before_copy(e) ==
    /\ pc[e] = "copy"
    /\ data_len' = Len(msg[e])
    /\ pc' = [pc EXCEPT ![e] = "signal"]
    /\ UNCHANGED <<server_event, client_event, disconnect, data,
                   msg, ncopied, rtype, timeout, msg_len, result, hist>>

\* data_len().store(msg.len(), Release)
send_store_len(e) ==
    /\ pc[e] = "copy"
    /\ ncopied[e] = Len(msg[e])
    /\ data_len' = Len(msg[e])
    /\ pc' = [pc EXCEPT ![e] = "signal"]
    /\ UNCHANGED <<server_event, client_event, disconnect, data,
                   msg, ncopied, rtype, timeout, msg_len, result, hist>>

\* send that waits until the peer has consumed the previous signal
send_signal_waits_for_peer(e) ==
    /\ pc[e] = "signal"
    /\ OwnEvent(Peer(e)) = "Clear"
    /\ SetEvent(Peer(e), "Signaled")
    /\ pc' = [pc EXCEPT ![e] = "ready"]
    /\ msg' = [msg EXCEPT ![e] = <<>>]
    /\ ncopied' = [ncopied EXCEPT ![e] = 0]
    /\ result' = [result EXCEPT ![e] = <<"SendOk">>]
    /\ mon' = OnSignal(e)
    /\ UNCHANGED <<disconnect, data_len, data, rtype, timeout, msg_len,
                   touched, drop_ctx>>

\* event.set(Signaled) on the peer's event, then Ok(())
send_signal(e) ==
    /\ pc[e] = "signal"
    /\ SetEvent(Peer(e), "Signaled")
    /\ pc' = [pc EXCEPT ![e] = "ready"]
    /\ msg' = [msg EXCEPT ![e] = <<>>]
    /\ ncopied' = [ncopied EXCEPT ![e] = 0]
    /\ result' = [result EXCEPT ![e] = <<"SendOk">>]
    /\ mon' = OnSignal(e)
    /\ UNCHANGED <<disconnect, data_len, data, rtype, timeout, msg_len,
                   touched, drop_ctx>>

(* ------------------------------ receive -------------------------------- *)

\* receive::<T>(timeout): picks its own event and starts event.wait(timeout)
receive(e, T, to) ==
    /\ pc[e] = "ready"
    /\ pc' = [pc EXCEPT ![e] = "wait"]
    /\ rtype' = [rtype EXCEPT ![e] = T]
    /\ timeout' = [timeout EXCEPT ![e] = to]
    /\ result' = [result EXCEPT ![e] = NoResult]
    /\ drop_ctx' = IF e = "server" THEN DropCtxAtReceive ELSE drop_ctx
    /\ mon' = OnReceive(e)
    /\ UNCHANGED <<shared, msg, ncopied, msg_len, touched>>

\* a wait on an event that is not reset when the wait returns
receive_wake_keeps_signal(e) ==
    /\ pc[e] = "wait"
    /\ OwnEvent(e) = "Signaled"
    /\ pc' = [pc EXCEPT ![e] = "load_disconnect"]
    /\ UNCHANGED <<server_event, client_event, disconnect, data_len, data,
                   msg, ncopied, rtype, timeout, msg_len, result, hist>>

\* event.wait returns Ok: the event was Signaled and is reset (auto-reset)
receive_wake(e) ==
    /\ pc[e] = "wait"
    /\ OwnEvent(e) = "Signaled"
    /\ SetEvent(e, "Clear")
    /\ pc' = [pc EXCEPT ![e] = "load_disconnect"]
    /\ UNCHANGED <<disconnect, data_len, data,
                   msg, ncopied, rtype, timeout, msg_len, result, hist>>

\* a timeout reported as a disconnect
receive_timeout_as_none(e) ==
    /\ pc[e] = "wait"
    /\ timeout[e] = "Val"
    /\ OwnEvent(e) = "Clear"
    /\ pc' = [pc EXCEPT ![e] = "ready"]
    /\ rtype' = [rtype EXCEPT ![e] = "unit"]
    /\ timeout' = [timeout EXCEPT ![e] = "Infinite"]
    /\ result' = [result EXCEPT ![e] = <<"OkNone">>]
    /\ UNCHANGED <<shared, msg, ncopied, msg_len, hist>>

\* event.wait returns Err: the timeout elapsed with the event still Clear
receive_timeout(e) ==
    /\ pc[e] = "wait"
    /\ timeout[e] = "Val"
    /\ OwnEvent(e) = "Clear"
    /\ pc' = [pc EXCEPT ![e] = "ready"]
    /\ rtype' = [rtype EXCEPT ![e] = "unit"]
    /\ timeout' = [timeout EXCEPT ![e] = "Infinite"]
    /\ result' = [result EXCEPT ![e] = <<"ErrTimeout">>]
    /\ UNCHANGED <<shared, msg, ncopied, msg_len, hist>>

\* receive that skips the disconnect check
receive_ignores_disconnect(e) ==
    /\ pc[e] = "load_disconnect"
    /\ pc' = [pc EXCEPT ![e] = "load_len"]
    /\ timeout' = [timeout EXCEPT ![e] = "Infinite"]
    /\ UNCHANGED <<shared, msg, ncopied, msg_len, rtype, result, hist>>

\* receive that clears the disconnect flag once it has seen it
receive_consumes_disconnect(e) ==
    /\ pc[e] = "load_disconnect"
    /\ IF disconnect
       THEN /\ pc' = [pc EXCEPT ![e] = "ready"]
            /\ rtype' = [rtype EXCEPT ![e] = "unit"]
            /\ result' = [result EXCEPT ![e] = <<"OkNone">>]
            /\ mon' = OnFinish(e)
       ELSE /\ pc' = [pc EXCEPT ![e] = "load_len"]
            /\ UNCHANGED <<rtype, result, mon>>
    /\ disconnect' = FALSE
    /\ timeout' = [timeout EXCEPT ![e] = "Infinite"]
    /\ UNCHANGED <<server_event, client_event, data_len, data,
                   msg, ncopied, msg_len, touched, drop_ctx>>

\* disconnect().load(Acquire): Ok(None) when set
receive_load_disconnect(e) ==
    /\ pc[e] = "load_disconnect"
    /\ IF disconnect
       THEN /\ pc' = [pc EXCEPT ![e] = "ready"]
            /\ rtype' = [rtype EXCEPT ![e] = "unit"]
            /\ result' = [result EXCEPT ![e] = <<"OkNone">>]
            /\ mon' = OnFinish(e)
       ELSE /\ pc' = [pc EXCEPT ![e] = "load_len"]
            /\ UNCHANGED <<rtype, result, mon>>
    /\ timeout' = [timeout EXCEPT ![e] = "Infinite"]
    /\ UNCHANGED <<shared, msg, ncopied, msg_len, touched, drop_ctx>>

\* data_len().load(Acquire) and the two assertions on msg_len
receive_load_len(e) ==
    /\ pc[e] = "load_len"
    /\ IF data_len = 0
       THEN /\ pc' = [pc EXCEPT ![e] = "panicked"]
            /\ result' = [result EXCEPT ![e] = <<"PanicLenZero">>]
            /\ rtype' = [rtype EXCEPT ![e] = "unit"]
            /\ mon' = OnFinish(e)
            /\ UNCHANGED msg_len
       ELSE IF ~(data_len < PayloadCap)
       THEN /\ pc' = [pc EXCEPT ![e] = "panicked"]
            /\ result' = [result EXCEPT ![e] = <<"PanicLenCap">>]
            /\ rtype' = [rtype EXCEPT ![e] = "unit"]
            /\ mon' = OnFinish(e)
            /\ UNCHANGED msg_len
       ELSE /\ pc' = [pc EXCEPT ![e] = "read"]
            /\ msg_len' = [msg_len EXCEPT ![e] = data_len]
            /\ UNCHANGED <<rtype, result, mon>>
    /\ UNCHANGED <<shared, msg, ncopied, timeout, touched, drop_ctx>>

\* slice::from_raw_parts(data(), msg_len) and bincode::deserialize
receive_read(e) ==
    /\ pc[e] = "read"
    /\ result' = [result EXCEPT
                    ![e] = deserialize(rtype[e], SubSeq(data, 1, msg_len[e]))]
    /\ pc' = [pc EXCEPT ![e] = "ready"]
    /\ rtype' = [rtype EXCEPT ![e] = "unit"]
    /\ msg_len' = [msg_len EXCEPT ![e] = 0]
    /\ mon' = OnFinish(e)
    /\ UNCHANGED <<shared, msg, ncopied, timeout, touched, drop_ctx>>

(* -------------------------------- drop --------------------------------- *)

\* Drop of the server that wakes the client as the client's drop wakes the server
drop_server_signals_client ==
    /\ pc["server"] \in {"ready", "panicked"}
    /\ client_event' = "Signaled"
    /\ pc' = [pc EXCEPT !["server"] = "closed"]
    /\ touched' = TRUE
    /\ drop_ctx' = "none"
    /\ mon' = OnDrop("server")
    /\ UNCHANGED <<server_event, disconnect, data_len, data,
                   msg, ncopied, rtype, timeout, msg_len, result>>

\* Drop of the server that announces itself as the client's drop does
drop_server_disconnects ==
    /\ pc["server"] \in {"ready", "panicked"}
    /\ disconnect' = TRUE
    /\ client_event' = "Signaled"
    /\ pc' = [pc EXCEPT !["server"] = "closed"]
    /\ touched' = TRUE
    /\ drop_ctx' = "none"
    /\ mon' = OnDrop("server")
    /\ UNCHANGED <<server_event, data_len, data,
                   msg, ncopied, rtype, timeout, msg_len, result>>

\* Drop of the server: loads the flag for the log line only
drop_server ==
    /\ pc["server"] \in {"ready", "panicked"}
    /\ pc' = [pc EXCEPT !["server"] = "closed"]
    /\ touched' = TRUE
    /\ drop_ctx' = "none"
    /\ mon' = OnDrop("server")
    /\ UNCHANGED <<shared, msg, ncopied, rtype, timeout, msg_len, result>>

\* Drop of the client that signals without having set the flag
drop_client_forgets_flag ==
    /\ pc["client"] \in {"ready", "panicked"}
    /\ pc' = [pc EXCEPT !["client"] = "drop_signal"]
    /\ touched' = TRUE
    /\ mon' = OnDrop("client")
    /\ UNCHANGED <<shared, msg, ncopied, rtype, timeout, msg_len, result,
                   drop_ctx>>

\* Drop of the client: disconnect().store(true, Release)
drop_client_store ==
    /\ pc["client"] \in {"ready", "panicked"}
    /\ disconnect' = TRUE
    /\ pc' = [pc EXCEPT !["client"] = "drop_signal"]
    /\ touched' = TRUE
    /\ mon' = OnDrop("client")
    /\ UNCHANGED <<server_event, client_event, data_len, data,
                   msg, ncopied, rtype, timeout, msg_len, result, drop_ctx>>

\* Drop of the client without the wake-up of the server
drop_client_without_signal ==
    /\ pc["client"] = "drop_signal"
    /\ pc' = [pc EXCEPT !["client"] = "closed"]
    /\ drop_ctx' = IF pc["server"] = "wait" THEN "blocked" ELSE drop_ctx
    /\ UNCHANGED <<shared, msg, ncopied, rtype, timeout, msg_len, result,
                   touched, mon>>

\* Drop of the client: server_event.set(Signaled)
drop_client_signal ==
    /\ pc["client"] = "drop_signal"
    /\ server_event' = "Signaled"
    /\ pc' = [pc EXCEPT !["client"] = "closed"]
    /\ drop_ctx' = IF pc["server"] = "wait" THEN "blocked" ELSE drop_ctx
    /\ UNCHANGED <<client_event, disconnect, data_len, data,
                   msg, ncopied, rtype, timeout, msg_len, result, touched, mon>>

(* --------------------------- specification ----------------------------- *)

Next ==
    \/ new_server /\ UNCHANGED <<dirty, aux>>
    \/ new_client /\ UNCHANGED <<dirty, aux>>
    \/ \E e \in Ends, v \in Values :
          send(e, v) /\ SendBounds(e) /\ UNCHANGED aux
    \/ \E e \in Ends : send_copy(e) /\ SlotWrite(e) /\ UNCHANGED aux
    \/ \E e \in Ends : send_store_len(e) /\ SlotWrite(e) /\ UNCHANGED aux
    \/ \E e \in Ends : send_signal(e) /\ SendBounds(e) /\ UNCHANGED aux
    \/ \E e \in Ends, T \in Types, to \in {"Infinite", "Val"} :
          receive(e, T, to) /\ UNCHANGED <<dirty, aux>>
    \/ \E e \in Ends : receive_wake(e) /\ UNCHANGED <<dirty, aux>>
    \/ \E e \in Ends : receive_timeout(e) /\ UNCHANGED <<dirty, aux>>
    \/ \E e \in Ends : receive_load_disconnect(e) /\ UNCHANGED <<dirty, aux>>
    \/ \E e \in Ends : receive_load_len(e) /\ UNCHANGED <<dirty, aux>>
    \/ \E e \in Ends : receive_read(e) /\ UNCHANGED <<dirty, aux>>
    \/ drop_server /\ UNCHANGED <<dirty, aux>>
    \/ drop_client_store /\ UNCHANGED <<dirty, aux>>
    \/ drop_client_signal /\ UNCHANGED <<dirty, aux>>

Spec == Init /\ [][Next]_vars

\* Once an operation has been invoked the process runs it to its end: every
\* step inside an operation is taken if it stays possible, and a finite
\* timeout elapses.  What is invoked, and when, is the caller's choice.
Fairness ==
    \A e \in Ends :
        /\ WF_vars(send_copy(e) /\ SlotWrite(e) /\ UNCHANGED aux)
        /\ WF_vars(send_store_len(e) /\ SlotWrite(e) /\ UNCHANGED aux)
        /\ WF_vars(send_signal(e) /\ SendBounds(e) /\ UNCHANGED aux)
        /\ WF_vars(receive_wake(e) /\ UNCHANGED <<dirty, aux>>)
        /\ WF_vars(receive_timeout(e) /\ UNCHANGED <<dirty, aux>>)
        /\ WF_vars(receive_load_disconnect(e) /\ UNCHANGED <<dirty, aux>>)
        /\ WF_vars(receive_load_len(e) /\ UNCHANGED <<dirty, aux>>)
        /\ WF_vars(receive_read(e) /\ UNCHANGED <<dirty, aux>>)

SpecLive ==
    /\ Spec
    /\ Fairness
    /\ WF_vars(drop_client_signal /\ UNCHANGED <<dirty, aux>>)

(* ------------------- specification of the layout ----------------------- *)
(* offsets() as new_server and new_client call it, for the event sizes the *)
(* backend reports, and the reference data_len() forms at len_offset.      *)
(* memory.as_ptr() is the start of a shared memory mapping, a multiple of  *)
(* 8.  A reference to an AtomicU64 at an address that is no multiple of 8  *)
(* is undefined behaviour: the build either uses it as it stands or stops  *)
(* with the misaligned pointer dereference check.                          *)

\* a region on which no channel has been created yet
ChannelIdle ==
    /\ ChannelInit
    /\ server_event = "Clear"
    /\ client_event = "Clear"
    /\ ~disconnect
    /\ data_len = 0
    /\ data = [i \in 1..PayloadCap |-> 0]

chan == <<shared, pc, msg, ncopied, rtype, timeout, msg_len, result, hist,
          dirty>>

LayoutInit ==
    /\ ChannelIdle
    /\ event_lens \in (0..MaxEventLen) \X (0..MaxEventLen)
    /\ layout = <<>>
    /\ len_access = "none"
    /\ sender = "client"
    /\ NoTraffic
    /\ NoServer

\* let (disconnect_offset, len_offset, data_offset) = offsets(.., ..)
call_offsets ==
    /\ layout = <<>>
    /\ layout' = offsets(event_lens[1], event_lens[2])
    /\ UNCHANGED <<event_lens, len_access, chan, sender, counts, srv>>

\* what &*memory.as_ptr().wrapping_add(len_offset).cast::<AtomicU64>() can do
DataLenOutcomes(len_offset) ==
    IF len_offset % SizeOfAtomicU64 = 0 THEN {"ok"} ELSE {"ok", "misaligned"}

\* data_len(): the reference to the length field
data_len_ref(outcome) ==
    /\ layout # <<>>
    /\ len_access = "none"
    /\ outcome \in DataLenOutcomes(layout[2])
    /\ len_access' = outcome
    /\ UNCHANGED <<event_lens, layout, chan, sender, counts, srv>>

LayoutNext ==
    \/ call_offsets
    \/ \E outcome \in {"ok", "misaligned"} : data_len_ref(outcome)

SpecLayout == LayoutInit /\ [][LayoutNext]_vars

(* -------------- specification of one-directional traffic --------------- *)
(* One end only sends and the other only receives; no endpoint is dropped. *)
(* The steps are those of the channel; beside them the history counts the  *)
(* sends that returned and the receives that returned a message, and       *)
(* follows the length in the slot from the send that stored it to the      *)
(* receive that loaded it.                                                 *)

quiet == <<dirty, event_lens, layout, len_access, sender, srv>>

OneWayInit ==
    /\ ChannelInit
    /\ ChannelLayout
    /\ sender \in Ends
    /\ NoTraffic
    /\ NoServer

\* what the return of a receive adds to the history
CountReceive(e) ==
    IF result'[e][1] = "Some"
    THEN /\ nsome' = nsome + 1
         /\ dup' = (dup \/ taken = last_taken)
         /\ last_taken' = taken
         /\ UNCHANGED <<nsent, slot_of, taken>>
    ELSE UNCHANGED counts

OneWayNext ==
    \/ new_server /\ UNCHANGED <<quiet, counts>>
    \/ new_client /\ UNCHANGED <<quiet, counts>>
    \/ \E v \in Values :
          nsent < MaxSends /\ send(sender, v) /\ UNCHANGED <<quiet, counts>>
    \/ send_copy(sender) /\ UNCHANGED <<quiet, counts>>
    \/ /\ send_store_len(sender)
       /\ slot_of' = nsent + 1
       /\ UNCHANGED <<quiet, nsent, nsome, taken, last_taken, dup>>
    \/ /\ send_signal(sender)
       /\ nsent' = nsent + 1
       /\ UNCHANGED <<quiet, nsome, slot_of, taken, last_taken, dup>>
    \/ \E T \in Types, to \in {"Infinite", "Val"} :
          receive(Peer(sender), T, to) /\ UNCHANGED <<quiet, counts>>
    \/ receive_wake(Peer(sender)) /\ UNCHANGED <<quiet, counts>>
    \/ receive_timeout(Peer(sender)) /\ UNCHANGED <<quiet, counts>>
    \/ receive_load_disconnect(Peer(sender)) /\ UNCHANGED <<quiet, counts>>
    \/ /\ receive_load_len(Peer(sender))
       /\ taken' = slot_of
       /\ UNCHANGED <<quiet, nsent, nsome, slot_of, last_taken, dup>>
    \/ /\ receive_read(Peer(sender))
       /\ CountReceive(Peer(sender))
       /\ UNCHANGED quiet

SpecOneWay == OneWayInit /\ [][OneWayNext]_vars

(* --------------- specification of the subscription loop --------------- *)
(* main of server.rs from line 34: the subscribers map is filled from the  *)
(* subscriptions list, then every iteration of the loop polls all          *)
(* subscribers (to the first await, line 64, and the inserts after it) and *)
(* compares the hash of states (line 77 to the end of the body).  The      *)
(* iteration order of a HashMap is arbitrary; it is the same in every      *)
(* iteration because the map is not changed after line 45.                 *)

\* the keys of a sequence of key expressions
KeysOf(q) == {q[i] : i \in DOMAIN q}

\* the orders in which a HashMap with the key set S can be iterated
Orders(S) == {q \in [1..Cardinality(S) -> S] : KeysOf(q) = S}

Min(a, b) == IF a <= b THEN a ELSE b

\* for (result, subscription) in results.into_iter().zip(&subs): inserts
\* of the pairs i .. n into st, where result i is what the i-th subscriber
\* in iteration order yielded
RECURSIVE InsertResults(_, _, _, _)
InsertResults(st, got, i, n) ==
    IF i > n THEN st
    ELSE InsertResults(
             IF got[subscribers[i]] # Absent
             THEN [st EXCEPT ![subs[i]] = got[subscribers[i]]]
             ELSE st,
             got, i + 1, n)

ServerInit ==
    /\ ChannelIdle
    /\ ChannelLayout
    /\ sender = "client"
    /\ NoTraffic
    /\ subs \in UNION {[1..n -> Keys] : n \in 0..MaxSubs}
    /\ subscribers \in Orders(KeysOf(subs))
    /\ states = [k \in AllKeys |-> Absent]
    /\ states_hash = hash(states)
    /\ loop_pc = "poll"
    /\ results = [k \in Keys |-> Absent]
    /\ called = FALSE

fixed == <<chan, event_lens, layout, len_access, sender, counts,
           subs, subscribers>>

\* lines 58-75: one future per subscriber, join_all, and the inserts
poll_subscribers(got) ==
    /\ loop_pc = "poll"
    /\ \A k \in Keys \ KeysOf(subs) : got[k] = Absent
    /\ results' = got
    /\ states' = InsertResults(states, got, 1,
                               Min(Len(subscribers), Len(subs)))
    /\ loop_pc' = "hash"
    /\ UNCHANGED <<states_hash, called, fixed>>

\* lines 77-81: the hash has not changed, continue
continue_unchanged ==
    /\ loop_pc = "hash"
    /\ states_hash = hash(states)
    /\ loop_pc' = "poll"
    /\ called' = FALSE
    /\ UNCHANGED <<states, states_hash, results, fixed>>

\* lines 77-94: the hash has changed: call, insert the outputs, record the hash
call_function(outputs) ==
    /\ loop_pc = "hash"
    /\ states_hash # hash(states)
    /\ states' = [k \in AllKeys |->
                    IF outputs[k] # Absent THEN outputs[k] ELSE states[k]]
    /\ states_hash' = hash(states')
    /\ loop_pc' = "poll"
    /\ called' = TRUE
    /\ UNCHANGED <<results, fixed>>

ServerNext ==
    \/ \E got \in [Keys -> 0..MaxValue] : poll_subscribers(got)
    \/ continue_unchanged
    \/ \E outputs \in [AllKeys -> 0..MaxValue] : call_function(outputs)

SpecServer == ServerInit /\ [][ServerNext]_vars

(* ------------------------ claims: shared notions ----------------------- *)

\* the step with which endpoint r's receive returns after its wait succeeded
Finishes(r) ==
    /\ pc[r] \in {"load_disconnect", "load_len", "read"}
    /\ pc'[r] \in {"ready", "panicked"}

\* r's receive is the one that takes the monitored message, decoded as its type
Tracked(r) == mon.st = "recv" /\ mon.to = r /\ rtype[r] = TypeOf(mon.v)

\* receive's two assertions accept the encoding of v
AcceptedLen(v) == 0 < Len(serialize(v)) /\ Len(serialize(v)) < PayloadCap

\* what receive does with a completely written message v
OutcomeFor(v) ==
    IF Len(serialize(v)) = 0 THEN <<"PanicLenZero">>
    ELSE IF Len(serialize(v)) >= PayloadCap THEN <<"PanicLenCap">>
    ELSE <<"Some", v>>

(* -------------------------------- C1 ----------------------------------- *)
\* C1 (as claimed): when the two ends strictly alternate, the receive that
\* follows send(v) returns Ok(Some(v)) for every v whose encoding send
\* accepts (encoded size <= capacity - data_offset).
C1_RoundTrip ==
    [][\A r \in Ends :
          (Finishes(r) /\ Tracked(r) /\ ~mon.noisy /\ ~mon.ow /\ ~mon.early)
              => result'[r] = <<"Some", mon.v>>]_vars

(* -------------------------------- C2 ----------------------------------- *)
\* C2 (as claimed, for the messages receive's assertions accept): in every
\* interleaving, when the peer's send(v) has returned before this endpoint
\* invokes receive, that receive returns exactly v.
C2_OrderingAnyInterleaving ==
    [][\A r \in Ends :
          (Finishes(r) /\ Tracked(r) /\ ~mon.early /\ ~mon.ow
                /\ AcceptedLen(mon.v))
              => result'[r] = <<"Some", mon.v>>]_vars

\* C2 (amended): when the sender invokes no further send or drop until the
\* receive has returned, the receive that takes the completed send(v) never
\* returns a stale or partially written value: it returns exactly v when the
\* encoding of v is 1 .. capacity-1 bytes long and aborts on receive's
\* length assertions when it is 0 or capacity bytes long.
C2_Ordering ==
    [][\A r \in Ends :
          (Finishes(r) /\ Tracked(r) /\ ~mon.noisy /\ ~mon.ow)
              => result'[r] = OutcomeFor(mon.v)]_vars

\* a two-byte message was sent and then received, every exchange so far
\* having alternated
C2_Witness ==
    /\ mon.st = "idle"
    /\ \E r \in Ends : result[r] = <<"Some", <<"opt", 1>>>> /\ result[Peer(r)] = <<"SendOk">>

(* -------------------------------- C3 ----------------------------------- *)
\* C3 (as claimed): a server receive invoked after the client's drop has
\* completed finds the server's event Signaled, does not time out, and
\* returns Ok(None) from the flag load, before the length is loaded.
C3_AnyReceiveAfterDrop ==
    drop_ctx \in {"after_signaled", "after_clear"} =>
        \/ pc["server"] = "wait" /\ server_event = "Signaled"
        \/ pc["server"] = "load_disconnect"
        \/ pc["server"] = "ready" /\ result["server"] = <<"OkNone">>

\* C3 (amended): a server receive invoked after the client's drop has
\* completed, while the server's event is still Signaled (no earlier server
\* receive has consumed the drop's signal), does not time out and returns
\* Ok(None) from the flag load, before the length is loaded.
C3_DisconnectBeforeRead ==
    drop_ctx = "after_signaled" =>
        \/ pc["server"] = "wait" /\ server_event = "Signaled"
        \/ pc["server"] = "load_disconnect"
        \/ pc["server"] = "ready" /\ result["server"] = <<"OkNone">>

C3_Witness ==
    /\ drop_ctx = "after_signaled"
    /\ pc["server"] = "ready"
    /\ result["server"] = <<"OkNone">>

(* -------------------------------- C4 ----------------------------------- *)
\* C4: a server that is in the wait of receive when the client's drop
\* signals is woken by that signal (the timeout cannot fire any more), reads
\* the flag as true and eventually returns Ok(None).
C4_DropWakesPeer ==
    /\ [](drop_ctx = "blocked" =>
            \/ pc["server"] = "wait" /\ server_event = "Signaled" /\ disconnect
            \/ pc["server"] = "load_disconnect" /\ disconnect
            \/ pc["server"] = "ready" /\ result["server"] = <<"OkNone">>)
    /\ (drop_ctx = "blocked")
          ~> (pc["server"] = "ready" /\ result["server"] = <<"OkNone">>)

C4_Witness ==
    /\ drop_ctx = "blocked"
    /\ pc["server"] = "ready"
    /\ result["server"] = <<"OkNone">>

(* -------------------------------- C5 ----------------------------------- *)
\* e waits with a finite timeout and its own event is Clear
WaitsClear(e) == pc[e] = "wait" /\ timeout[e] = "Val" /\ OwnEvent(e) = "Clear"

\* C5: a receive with a finite timeout whose event is Clear can only return
\* the timeout error, leaving flag, length, payload and both events as they
\* are; and it does return, unless the peer signals the event first.
C5_Timeout ==
    /\ [][\A e \in Ends :
            (WaitsClear(e) /\ pc'[e] # pc[e]) =>
                /\ pc'[e] = "ready"
                /\ result'[e] = <<"ErrTimeout">>
                /\ UNCHANGED shared]_vars
    /\ \A e \in Ends :
          WaitsClear(e) ~>
              \/ pc[e] = "ready" /\ result[e] = <<"ErrTimeout">>
              \/ OwnEvent(e) = "Signaled"

C5_Witness ==
    \E e \in Ends : pc[e] = "ready" /\ result[e] = <<"ErrTimeout">>

(* -------------------------------- C6 ----------------------------------- *)
\* C6: a send whose encoding is larger than capacity - data_offset fails on
\* the assertion: no send with such a message gets to the copy, and the
\* failing step leaves payload, length, flag and both events unchanged.
C6_Oversize ==
    /\ [](\A e \in Ends :
            pc[e] \in {"copy", "signal"} => Len(msg[e]) <= PayloadCap)
    /\ [][\A e \in Ends :
            (pc[e] = "ready" /\ result'[e] = <<"PanicOversize">>) =>
                pc'[e] = "panicked" /\ UNCHANGED shared]_vars
    /\ [][\A e \in Ends, v \in Values :
            (send(e, v) /\ Len(serialize(v)) > PayloadCap) =>
                result'[e] = <<"PanicOversize">>]_vars

C6_Witness ==
    \E e \in Ends : pc[e] = "panicked" /\ result[e] = <<"PanicOversize">>

(* -------------------------------- C7 ----------------------------------- *)
\* C7 (as claimed): after send(v1) and send(v2) of one endpoint with no
\* operation of the peer in between, the slot holds the length and payload
\* of v2 when send(v2) returns, and the peer's next receive returns v2.
C7_Overwrite ==
    /\ [][\A e \in Ends :
            (pc[e] = "signal" /\ pc'[e] = "ready" /\ mon.st = "sending"
                  /\ mon.ow /\ mon.to = Peer(e)) =>
                /\ data_len' = Len(serialize(mon.v))
                /\ SubSeq(data', 1, Len(serialize(mon.v))) = serialize(mon.v)]_vars
    /\ [][\A r \in Ends :
            (Finishes(r) /\ Tracked(r) /\ mon.ow /\ ~mon.noisy)
                => result'[r] = <<"Some", mon.v>>]_vars

(* -------------------------------- C8 ----------------------------------- *)
\* C8: a send whose encoding fits has a step to take in every state of the
\* peer, and returns Ok(()) after the copy, the length store and the signal.
C8_SendNeverBlocks ==
    /\ [](\A e \in Ends :
            /\ pc[e] = "copy" => ENABLED (send_copy(e) \/ send_store_len(e))
            /\ pc[e] = "signal" => ENABLED send_signal(e))
    /\ \A e \in Ends :
          (pc[e] \in {"copy", "signal"})
              ~> (pc[e] = "ready" /\ result[e] = <<"SendOk">>)

\* the server is about to signal although the client is gone and has not
\* consumed the previous message
C8_Witness ==
    /\ pc["server"] = "signal"
    /\ pc["client"] = "closed"
    /\ client_event = "Signaled"

(* -------------------------------- C9 ----------------------------------- *)
\* C9: new_server leaves both events Clear, the flag false and the length 0
\* whatever the region held; until a send or a drop is invoked no receive
\* gets past its wait, so none returns Ok(Some(_)) or Ok(None).
C9_NewServer ==
    /\ [][(pc["server"] = "none" /\ pc'["server"] # "none") =>
            /\ server_event' = "Clear"
            /\ client_event' = "Clear"
            /\ disconnect' = FALSE
            /\ data_len' = 0]_vars
    /\ [](~touched =>
            \A e \in Ends :
                /\ pc[e] \in {"none", "ready", "wait"}
                /\ result[e] \in {NoResult, <<"ErrTimeout">>})

C9_Witness ==
    /\ ~touched
    /\ pc["server"] = "wait"
    /\ result["client"] = <<"ErrTimeout">>

(* -------------------------------- C10 ---------------------------------- *)
\* C10 (as claimed): new_client writes nothing in the region, and a message
\* the server sent before the client attached is returned by the client's
\* first receive.
C10_NewClientFrame ==
    /\ [][(pc["client"] = "none" /\ pc'["client"] # "none")
            => UNCHANGED shared]_vars
    /\ [][(Finishes("client") /\ Tracked("client") /\ mon.pre /\ ~mon.noisy)
            => result'["client"] = <<"Some", mon.v>>]_vars

(* -------------------------------- C11 ---------------------------------- *)
\* the step that drops the server's endpoint
DropServerStep ==
    /\ pc["server"] \in {"ready", "panicked"}
    /\ pc'["server"] = "closed"

\* C11: dropping the server's endpoint leaves the flag, the length, the
\* payload and both events as they were; in particular it never signals the
\* client's event.
C11_ServerDropFrame ==
    [][DropServerStep =>
          /\ UNCHANGED <<disconnect, data_len, data>>
          /\ UNCHANGED <<server_event, client_event>>]_vars

\* the server was dropped while the client waits and a message is in the slot
C11_Witness ==
    /\ pc["server"] = "closed"
    /\ pc["client"] = "wait"
    /\ client_event = "Clear"
    /\ server_event = "Signaled"
    /\ ~disconnect
    /\ data_len > 0

(* -------------------------------- C12 ---------------------------------- *)
\* the step of the client's drop that stores the flag
DropClientStoreStep ==
    /\ pc["client"] \in {"ready", "panicked"}
    /\ pc'["client"] = "drop_signal"

\* C12: once new_server has returned, the only step that changes the
\* disconnect flag is the store of the client's drop, which takes it from
\* false to true; the flag is true exactly from that store on, through every
\* later send, receive and drop.
C12_FlagDiscipline ==
    /\ [][(pc["server"] # "none" /\ disconnect' # disconnect) =>
            (DropClientStoreStep /\ ~disconnect /\ disconnect')]_vars
    /\ [][(pc["server"] # "none" /\ disconnect) => disconnect']_vars
    /\ [](pc["server"] # "none" =>
            (disconnect <=> pc["client"] \in {"drop_signal", "closed"}))

\* the flag is still set after the server has seen it and has sent again
C12_Witness ==
    /\ disconnect
    /\ pc["client"] = "closed"
    /\ pc["server"] = "closed"
    /\ result["server"] = <<"SendOk">>
    /\ drop_ctx = "none"
    /\ server_event = "Clear"

(* -------------------------------- C13 ---------------------------------- *)
\* the n bytes of the region that start at offset a
Range(a, n) == a..(a + n - 1)

\* the fields of the region under the computed layout
Fields ==
    <<Range(0, event_lens[1]),
      Range(event_lens[1], event_lens[2]),
      Range(layout[1], SizeOfAtomicBool),
      Range(layout[2], SizeOfAtomicU64),
      Range(layout[3], PayloadCap)>>

\* C13 (as claimed): for every pair of event sizes the length field starts
\* at server_event_len + client_event_len + sizeof(bool), that offset is a
\* multiple of 8 so that the reference to the 64-bit length is aligned, and
\* the two events, the flag, the length and the payload do not overlap.
C13_LayoutAligned ==
    layout # <<>> =>
        /\ layout[2] = event_lens[1] + event_lens[2] + SizeOfAtomicBool
        /\ layout[2] % 8 = 0
        /\ len_access # "misaligned"
        /\ \A i, j \in 1..5 : i # j => Fields[i] \cap Fields[j] = {}

(* -------------------------------- C14 ---------------------------------- *)
\* the step in which endpoint e's receive loads the length
LoadsLen(e) == pc[e] = "load_len" /\ pc'[e] # "load_len"

\* C14 (as claimed): a receive that has woken and has read the flag as false
\* loads a length that is nonzero and strictly below the payload capacity,
\* so it passes both assertions, whatever accepted message was sent.
C14_ReceiveLength ==
    [][\A e \in Ends :
          LoadsLen(e) =>
              /\ data_len # 0
              /\ data_len < PayloadCap
              /\ pc'[e] = "read"]_vars

(* -------------------------------- C15 ---------------------------------- *)
\* the slot holds the length and the complete payload of the encoding m
SlotHolds(m) == data_len = Len(m) /\ SubSeq(data, 1, Len(m)) = m

\* the step with which endpoint e's send signals the peer and returns
SendSignals(e) == pc[e] = "signal" /\ pc'[e] = "ready"

\* the order of the steps inside one send, one receive and the client's drop
StepOrder(e) ==
    \* send: the length is stored when the whole payload has been copied
    /\ (pc[e] = "copy" /\ pc'[e] = "signal") =>
          /\ ncopied[e] = Len(msg[e])
          /\ data_len' = Len(msg[e])
    \* send: no event is signaled before the length is stored
    /\ (/\ pc[e] \in {"ready", "copy"}
        /\ pc'[e] \in {"copy", "signal"}
        /\ <<pc'[e], ncopied'[e]>> # <<pc[e], ncopied[e]>>) =>
          UNCHANGED <<server_event, client_event>>
    /\ SendSignals(e) =>
          IF e = "server" THEN client_event' = "Signaled"
                          ELSE server_event' = "Signaled"
    \* receive: the wait ends before the flag is loaded
    /\ (pc[e] = "wait" /\ pc'[e] # "wait") =>
          \/ pc'[e] = "load_disconnect" /\ OwnEvent(e) = "Signaled"
          \/ pc'[e] = "ready" /\ result'[e] = <<"ErrTimeout">>
    \* receive: the flag is loaded, and found false, before the length
    /\ (pc[e] # "load_len" /\ pc'[e] = "load_len") =>
          pc[e] = "load_disconnect" /\ ~disconnect
    \* receive: the length is loaded before the payload is read
    /\ (pc[e] # "read" /\ pc'[e] = "read") =>
          pc[e] = "load_len" /\ msg_len'[e] = data_len
    /\ (result'[e] # result[e] /\ result'[e][1] \in {"Some", "ErrDecode"}) =>
          pc[e] = "read"
    \* the client's drop: the flag is set before the server's event
    /\ (e = "client" /\ DropClientStoreStep) =>
          disconnect' /\ UNCHANGED <<server_event, client_event>>
    /\ (e = "client" /\ pc[e] = "drop_signal" /\ pc'[e] # "drop_signal") =>
          disconnect /\ server_event' = "Signaled"

\* C15 (as claimed): the steps of send, receive and the client's drop run in
\* their order, hence whenever a send signals the peer's event the slot
\* holds that send's complete (length, payload) pair.
C15_StepOrderAnySend ==
    [][\A e \in Ends :
          /\ StepOrder(e)
          /\ SendSignals(e) => SlotHolds(msg[e])]_vars

\* C15 (amended): the steps run in their order, hence when a send signals
\* the peer's event and the peer has not itself written the slot since that
\* send was invoked, the slot holds that send's complete pair.
C15_StepOrder ==
    [][\A e \in Ends :
          /\ StepOrder(e)
          /\ (SendSignals(e) /\ ~dirty[e]) => SlotHolds(msg[e])]_vars

\* the server's send has signaled a waiting client, which has read the flag
\* and is about to load the length of the two-byte message in the slot
C15_Witness ==
    /\ result["server"] = <<"SendOk">>
    /\ pc["client"] = "load_len"
    /\ SlotHolds(serialize(<<"opt", 1>>))
    /\ mon.st = "recv"
    /\ mon.early

(* -------------------------------- C16 ---------------------------------- *)
\* both ends run a send and each has copied its payload and stored its
\* length: what the slot holds now is what it holds when both have returned
BothWritten == pc["server"] = "signal" /\ pc["client"] = "signal"

\* C16 (as claimed): when both ends send with no receive in between, the
\* slot ends up holding the length and the complete payload of one of the
\* two messages, never the length of one with payload bytes of the other.
C16_LaterWriteWins ==
    BothWritten => \E e \in Ends : SlotHolds(msg[e])

\* C16 (amended): when both ends send with no receive in between, the slot
\* ends up holding the length of one of the two messages.  If one end wrote
\* nothing while the other's send ran, the slot holds the complete pair of
\* the later message; if the two sends overlap, payload bytes of the other
\* message may lie under that length.
C16_LengthOfOne ==
    BothWritten =>
        /\ \E e \in Ends : data_len = Len(msg[e])
        /\ \A e \in Ends : ~dirty[e] => SlotHolds(msg[e])

\* both sends have written, and the slot holds the length of the server's
\* message over payload bytes of the client's longer message
C16_Witness ==
    /\ BothWritten
    /\ data_len = Len(msg["server"])
    /\ Len(msg["client"]) > Len(msg["server"])
    /\ SubSeq(data, 1, data_len) = SubSeq(msg["client"], 1, data_len)
    /\ SubSeq(data, 1, data_len) # msg["server"]

(* -------------------------------- C17 ---------------------------------- *)
\* C17 (as claimed): when one end only sends and the other only receives,
\* each completed send is returned by at most one receive, and the receives
\* that returned Ok(Some(_)) never outnumber the sends.
C17_NoDuplicate ==
    /\ ~dup
    /\ nsome <= nsent

\* C17 (amended): when one end only sends and the other only receives, the
\* receives that returned Ok(Some(_)) never outnumber the sends that have
\* returned, and each of them read the slot under a length stored by a send.
C17_SomeBoundedBySends ==
    /\ nsome <= nsent
    /\ nsome > 0 => last_taken \in 1..(nsent + 1)

\* the second send ran between the first receive's wake-up and its length
\* load: both receives returned the second message
C17_Witness ==
    /\ dup
    /\ nsent = 2
    /\ nsome = 2
    /\ last_taken = 2

(* -------------------------------- C18 ---------------------------------- *)
\* the server is in a receive(None) it invoked after the client's drop
\* had completed
WaitsAfterDrop ==
    /\ drop_ctx \in {"after_signaled", "after_clear"}
    /\ pc["server"] = "wait"
    /\ timeout["server"] = "Infinite"

\* C18 (as claimed): every server receive(None) invoked after the client's
\* drop has completed, the first and every later one, can always proceed to
\* its end and returns Ok(None): none blocks and none returns a message.
C18_StickyForEveryReceive ==
    /\ WaitsAfterDrop => ENABLED receive_wake("server")
    /\ drop_ctx \in {"after_signaled", "after_clear"} =>
          \/ pc["server"] = "wait"
          \/ pc["server"] = "load_disconnect" /\ disconnect
          \/ /\ pc["server"] = "ready"
             /\ result["server"] \in {<<"OkNone">>, <<"ErrTimeout">>}

\* C18 (amended): a server receive(None) invoked after the client's drop has
\* completed returns Ok(None) if the server's event is still Signaled when
\* it is invoked; if an earlier receive has consumed that signal it blocks
\* for ever.  No receive invoked after the drop returns a message.
C18_StickyOnce ==
    /\ (drop_ctx = "after_signaled")
          ~> (pc["server"] = "ready" /\ result["server"] = <<"OkNone">>)
    /\ []((WaitsAfterDrop /\ drop_ctx = "after_clear")
            => ~ENABLED receive_wake("server"))
    /\ [][(WaitsAfterDrop /\ drop_ctx = "after_clear")
            => (WaitsAfterDrop /\ drop_ctx = "after_clear")']_vars
    /\ [](drop_ctx \in {"after_signaled", "after_clear"} =>
            result["server"][1] \notin {"Some", "ErrDecode"})

\* the server's second receive(None) after the drop: the flag is set, the
\* event is Clear and nobody is left to signal it
C18_Witness ==
    /\ WaitsAfterDrop
    /\ drop_ctx = "after_clear"
    /\ disconnect
    /\ server_event = "Clear"
    /\ pc["client"] = "closed"

(* -------------------------------- C19 ---------------------------------- *)
\* the client is in a receive(None), its event Clear, and the server is gone
ClientBlockedServerGone ==
    /\ pc["server"] = "closed"
    /\ pc["client"] = "wait"
    /\ timeout["client"] = "Infinite"
    /\ client_event = "Clear"

\* C19: no receive of the client returns Ok(None), none gets to the
\* disconnect branch with the flag set; the server's drop leaves a client
\* that waits in receive(None) waiting, and with the server gone that
\* client waits for ever.
C19_ServerDropUnseen ==
    /\ [](result["client"] # <<"OkNone">>)
    /\ [](pc["client"] \in {"wait", "load_disconnect", "load_len", "read"}
            => ~disconnect)
    /\ [][(DropServerStep /\ pc["client"] = "wait") =>
            /\ pc'["client"] = "wait"
            /\ client_event' = client_event
            /\ ~disconnect']_vars
    /\ [][ClientBlockedServerGone => ClientBlockedServerGone']_vars

\* the server was dropped under a client blocked in receive(None)
C19_Witness ==
    /\ ClientBlockedServerGone
    /\ result["server"] = <<"SendOk">>
    /\ ~disconnect

(* -------------------------------- C20 ---------------------------------- *)
\* after the inserts of an iteration, every value a subscriber yielded is
\* in states under that subscriber's key expression
StoredUnderOwnKey ==
    loop_pc = "hash" =>
        \A k \in Keys : results[k] # Absent => states[k] = results[k]

\* the step of an iteration that calls the Python function
CallStep == loop_pc = "hash" /\ loop_pc' = "poll" /\ called'

\* C20 (as claimed): in every iteration a value received from the subscriber
\* of key expression s is stored in states under s, whatever the number of
\* subscriptions and the iteration order of the subscribers map; and the
\* Python function is called only when the hash of states differs from the
\* hash recorded after the previous call.
C20_SubscriptionLoop ==
    /\ []StoredUnderOwnKey
    /\ [][CallStep => hash(states) # states_hash]_vars

====
